---- MODULE Spec2Model ----
(***************************************************************************)
(* A model of src/template.ts: the name normaliser (correctName), the      *)
(* source compiler (compile), the dynamic loader (loadComponent) and the   *)
(* render orchestrator (templateRender).                                   *)
(*                                                                         *)
(* Strings that the code inspects character by character (component       *)
(* names) are sequences of one-character strings.  JavaScript values are   *)
(* records with a "kind" field: undefined, null, strings, and opaque       *)
(* objects (props bags, message catalogues) known by a tag and a size.     *)
(***************************************************************************)
EXTENDS Integers, Sequences, FiniteSets, TLC

VARIABLES
    \* --- name normaliser runs ---
    nm_pc,        \* "off" | "input" | "once" | "twice"
    nm_in,        \* the raw name
    nm_once,      \* correctName(raw)
    nm_twice,     \* correctName(correctName(raw))
    \* --- compile / load runs ---
    cm_pc,        \* "off" | "input" | "compiled" | "loaded" | "failed"
    cm_src,       \* the name and the source handed to loadComponent
    cm_text,      \* the module text produced by compile
    cm_heap,      \* the evaluated module: its objects and its default export
    cm_default,   \* the loaded component (what loadComponent returns)
    \* --- templateRender calls ---
    live,         \* the calls in flight
    args,         \* args[c]: the arguments of call c
    pc,           \* pc[c]: where call c is suspended
    name,         \* name[c]: the local `name` after line 40
    idx,          \* idx[c]: position of the for-of loop over code.components
    pending,      \* pending[c]: the value the awaited promise resolves to
    app,          \* app[c]: the application instance of call c
    result,       \* result[c]: what the call returned
    log,          \* log[c]: console output of call c
    trace,        \* trace[c]: the steps call c has taken, in order
    faulted,      \* faulted[c]: a collaborator threw during call c
    components    \* the module-level built-in component mapping (lines 14-32)

nmVars == <<nm_pc, nm_in, nm_once, nm_twice>>
cmVars == <<cm_pc, cm_src, cm_text, cm_heap, cm_default>>
rVars  == <<live, args, pc, name, idx, pending, app, result, log, trace, faulted, components>>
vars   == <<nmVars, cmVars, rVars>>

-----------------------------------------------------------------------------
(* Bounds *)

\* names are concatenations of at most MaxTokens tokens
MaxTokens == 4
\* code.components holds at most MaxComps entries
MaxComps == 3
\* a parsed source holds at most MaxStyles style blocks
MaxStyles == 2
\* each of two concurrent calls lists at most MaxConcComps sub-components
MaxConcComps == 2

-----------------------------------------------------------------------------
(* Characters *)

LowerChars == {"a", "b", "e", "f", "g", "u", "v", "w"}
UpperChars == {"A", "B", "E", "F", "G", "U", "V", "W"}
DigitChars == {"1"}

\* String.prototype.toUpperCase on one character
ToUpperCase(ch) ==
    CASE ch = "a" -> "A" [] ch = "b" -> "B" [] ch = "e" -> "E" [] ch = "f" -> "F"
      [] ch = "g" -> "G" [] ch = "u" -> "U" [] ch = "v" -> "V" [] ch = "w" -> "W"
      [] OTHER -> ch

\* String.prototype.toLowerCase on one character
ToLowerCase(ch) ==
    CASE ch = "A" -> "a" [] ch = "B" -> "b" [] ch = "E" -> "e" [] ch = "F" -> "f"
      [] ch = "G" -> "g" [] ch = "U" -> "u" [] ch = "V" -> "v" [] ch = "W" -> "w"
      [] OTHER -> ch

\* scule: STR_SPLITTERS
STR_SPLITTERS == {"-", "_", "/", "."}

\* scule: isUppercase(char): undefined for a digit, else char !== char.toLowerCase()
IsUppercase(ch) ==
    IF ch \in DigitChars THEN "undefined"
    ELSE IF ch # ToLowerCase(ch) THEN "true" ELSE "false"

-----------------------------------------------------------------------------
(* pascalCase (scule), as imported on line 7 and called on line 111 *)

Last(s) == s[Len(s)]
Front(s) == SubSeq(s, 1, Len(s) - 1)

\* scule: splitByCase(str), the loop over the characters of str
RECURSIVE SplitLoop(_, _, _, _, _, _)
SplitLoop(str, i, parts, buff, previousUpper, previousSplitter) ==
    IF i > Len(str) THEN Append(parts, buff)
    ELSE
      LET char == str[i]
          isSplitter == char \in STR_SPLITTERS
          isUpper == IsUppercase(char)
      IN  IF isSplitter
          THEN SplitLoop(str, i + 1, Append(parts, buff), <<>>, "undefined", previousSplitter)
          ELSE IF previousSplitter = "false" /\ previousUpper = "false" /\ isUpper = "true"
          THEN \* case rising edge
               SplitLoop(str, i + 1, Append(parts, buff), <<char>>, isUpper, previousSplitter)
          ELSE IF previousSplitter = "false" /\ previousUpper = "true" /\ isUpper = "false"
                  /\ Len(buff) > 1
          THEN \* case falling edge
               SplitLoop(str, i + 1, Append(parts, Front(buff)), <<Last(buff), char>>,
                         isUpper, previousSplitter)
          ELSE SplitLoop(str, i + 1, parts, Append(buff, char), isUpper, "false")

splitByCase(str) ==
    IF str = <<>> THEN <<>> ELSE SplitLoop(str, 1, <<>>, <<>>, "undefined", "undefined")

\* scule: upperFirst(str)
upperFirst(str) ==
    IF str = <<>> THEN <<>> ELSE <<ToUpperCase(str[1])>> \o Tail(str)

RECURSIVE JoinParts(_)
JoinParts(parts) ==
    IF parts = <<>> THEN <<>> ELSE Head(parts) \o JoinParts(Tail(parts))

\* scule: pascalCase(str) = splitByCase(str).map(upperFirst).join('')
pascalCase(str) ==
    IF str = <<>> THEN <<>>
    ELSE JoinParts([k \in 1..Len(splitByCase(str)) |-> upperFirst(splitByCase(str)[k])])

-----------------------------------------------------------------------------
(* correctName, lines 110-112 *)

\* name.replaceAll(':', '-')
ReplaceAllColons(str) == [k \in 1..Len(str) |-> IF str[k] = ":" THEN "-" ELSE str[k]]

DotVue == <<".", "v", "u", "e">>

\* the positions at which '.vue' occurs in str
VueAt(str) == {k \in 1..(Len(str) - 3) : SubSeq(str, k, k + 3) = DotVue}

Min(S) == CHOOSE m \in S : \A n \in S : m <= n

\* String.prototype.replace('.vue', ''): removes the FIRST occurrence, wherever it is
ReplaceFirstVue(str) ==
    IF VueAt(str) = {} THEN str
    ELSE LET k == Min(VueAt(str))
         IN  SubSeq(str, 1, k - 1) \o SubSeq(str, k + 4, Len(str))

\* a variant that replaces only the first ':' (String.prototype.replace)
ReplaceFirstColon(str) ==
    LET C == {k \in 1..Len(str) : str[k] = ":"}
    IN  IF C = {} THEN str
        ELSE [k \in 1..Len(str) |-> IF k = Min(C) THEN "-" ELSE str[k]]

correctNameFirstColonOnly(nm) == pascalCase(ReplaceFirstVue(ReplaceFirstColon(nm)))

\* line 111
correctName(nm) == pascalCase(ReplaceFirstVue(ReplaceAllColons(nm)))

-----------------------------------------------------------------------------
(* JavaScript values *)

Null == [kind |-> "null"]
Undefined == [kind |-> "undefined"]
Str(chars) == [kind |-> "string", chars |-> chars]
\* an opaque object (a props bag, a message catalogue) with `size` own keys
Obj(tag, size) == [kind |-> "object", tag |-> tag, size |-> size]
EmptyObj == Obj("empty", 0)

\* ToBoolean, as used by `||`, `if (x)` and `!x`
Truthy(v) ==
    CASE v.kind = "undefined" -> FALSE
      [] v.kind = "null" -> FALSE
      [] v.kind = "string" -> v.chars # <<>>
      [] OTHER -> TRUE

\* a || b
Or(a, b) == IF Truthy(a) THEN a ELSE b

\* console output: one entry per console.warn / console.error call
Notice(tag, chars) == [kind |-> "notice", tag |-> tag, chars |-> chars]

-----------------------------------------------------------------------------
(* Runs of the name normaliser on bounded names *)

NameTokens ==
    { <<"a">>, <<"B">>, <<"1">>, <<":">>, <<"-">>, <<".">>,
      DotVue, <<".", "v">>, <<"u", "e">> }

RECURSIVE NamesUpTo(_)
NamesUpTo(n) ==
    IF n = 0 THEN {<<>>}
    ELSE LET S == NamesUpTo(n - 1)
         IN  S \cup {s \o t : s \in S, t \in NameTokens}

RawNames == NamesUpTo(MaxTokens)

cmOff ==
    /\ cm_pc = "off" /\ cm_src = Null /\ cm_text = <<>>
    /\ cm_heap = <<>> /\ cm_default = Null

rOff ==
    /\ live = {} /\ args = <<>> /\ pc = <<>> /\ name = <<>> /\ idx = <<>>
    /\ pending = <<>> /\ app = <<>> /\ result = <<>> /\ log = <<>>
    /\ trace = <<>> /\ faulted = <<>> /\ components = Null

nmOff == nm_pc = "off" /\ nm_in = <<>> /\ nm_once = <<>> /\ nm_twice = <<>>

InitName ==
    /\ nm_pc = "input"
    /\ nm_in \in RawNames
    /\ nm_once = <<>>
    /\ nm_twice = <<>>
    /\ cmOff /\ rOff

\* templateRender line 40 / line 55: the orchestrator normalises the raw name
Normalize ==
    /\ nm_pc = "input"
    /\ nm_once' = correctName(nm_in)
    /\ nm_pc' = "once"
    /\ UNCHANGED <<nm_in, nm_twice, cmVars, rVars>>

\* loadComponent line 116: the loader normalises the name it was handed again
Renormalize ==
    /\ nm_pc = "once"
    /\ nm_twice' = correctName(nm_once)
    /\ nm_pc' = "twice"
    /\ UNCHANGED <<nm_in, nm_once, cmVars, rVars>>

NextName == Normalize \/ Renormalize

SpecName == InitName /\ [][NextName]_vars

-----------------------------------------------------------------------------
(* Properties of the name normaliser *)

NameChars == LowerChars \cup UpperChars \cup DigitChars \cup STR_SPLITTERS \cup {":"}

\* C4: correctName is total and idempotent: normalising a raw name yields a
\* string, and normalising that string again (as loadComponent does with the
\* name the orchestrator already normalised) yields the same string, so the
\* name compiled under equals the registration key.
C4_Idempotent ==
    /\ nm_pc \in {"once", "twice"} =>
          /\ Len(nm_once) \in 0..Len(nm_in)
          /\ \A k \in 1..Len(nm_once) : nm_once[k] \in NameChars
    /\ nm_pc = "twice" => nm_twice = nm_once

\* a raw name with several ':' and a '.vue' has been normalised twice, and
\* normalisation changed it
C4_Witness ==
    /\ nm_pc = "twice"
    /\ Cardinality({k \in 1..Len(nm_in) : nm_in[k] = ":"}) >= 2
    /\ VueAt(nm_in) # {}
    /\ nm_once # nm_in
    /\ nm_once # <<>>

\* removes '.vue' only where it ends the string
StripTrailingVue(str) ==
    IF Len(str) >= 4 /\ SubSeq(str, Len(str) - 3, Len(str)) = DotVue
    THEN SubSeq(str, 1, Len(str) - 4)
    ELSE str

\* C5: correctName(raw) is the PascalCase form of raw with every ':' replaced
\* by '-' and '.vue' removed only where it is a trailing suffix.
C5_TrailingSuffixOnly ==
    nm_pc \in {"once", "twice"} =>
        nm_once = pascalCase(StripTrailingVue(ReplaceAllColons(nm_in)))

-----------------------------------------------------------------------------
(* compile, lines 129-182.  A source text is modelled by what parse()      *)
(* returns for it: [errors, script, styles, template], plus an id standing *)
(* for its content and whether the module generated from it evaluates.     *)

Source(id, errors, script, styles, template, evaluates) ==
    [kind |-> "source", id |-> id, errors |-> errors, script |-> script,
     styles |-> styles, template |-> template, evaluates |-> evaluates]

Throw == [kind |-> "throw"]

\* one statement of the generated module text
Stmt(op, arg) == [op |-> op, arg |-> arg]

\* lines 144-149: script = compileScript(...) when a script block is present
HasScript(src) == src.script

\* lines 151-158: styles = compileStyle(...) when a style block is present;
\* the first block's content, scoped if any block is scoped
HasStyles(src) == Len(src.styles) > 0
StylesCode(src) ==
    [kind |-> "css", src |-> src.id, scoped |-> \E k \in 1..Len(src.styles) : src.styles[k]]

\* lines 160-169: the render function compiled from the template
TemplateCode(src) == [kind |-> "render", src |-> src.id, bindings |-> HasScript(src)]

ScriptContent(src) == [kind |-> "script", src |-> src.id]

\* line 178: the export statement of the generated module
ExportStmt(src) ==
    IF HasScript(src) THEN Stmt("export default _sfc_main", Undefined)
    ELSE Stmt("export default { render }", Undefined)

\* lines 171-179: the module text, statement by statement
Output(filename, src) ==
    <<Stmt("render", TemplateCode(src))>>
    \o (IF HasScript(src) THEN <<Stmt("script", ScriptContent(src))>> ELSE <<>>)
    \o (IF HasStyles(src) THEN <<Stmt("const styles", StylesCode(src))>> ELSE <<>>)
    \o (IF HasScript(src) THEN <<Stmt("_sfc_main.render = render", Undefined)>>
        ELSE <<Stmt("const _sfc_main = { render }", Undefined)>>)
    \o (IF HasStyles(src) THEN <<Stmt("_sfc_main.style = styles", Undefined)>> ELSE <<>>)
    \o <<Stmt("_sfc_main.__file", Str(filename))>>
    \o <<ExportStmt(src)>>

\* lines 134-135
CompileNotice(filename, verbose) ==
    IF verbose THEN <<Notice("Compiling", filename)>> ELSE <<>>

\* compile(filename, source): throws on parse diagnostics (lines 141-142) and on
\* a source with no template block (descriptor.template is null, line 163)
compile(filename, src) ==
    IF src.errors \/ ~src.template THEN Throw
    ELSE [kind |-> "text", stmts |-> Output(filename, src), evaluates |-> src.evaluates]

-----------------------------------------------------------------------------
(* importModule (import-string), line 118: evaluates the module text *)

NewObject == [kind |-> "component", render |-> Undefined, script |-> Undefined,
              style |-> Undefined, file |-> Undefined]

EmptyEnv == [heap |-> <<>>, sfc |-> 0, render |-> Undefined, styles |-> Undefined, default |-> 0]

Exec(env, st) ==
    CASE st.op = "render" -> [env EXCEPT !.render = st.arg]
      [] st.op = "script" ->
           [env EXCEPT !.heap = Append(env.heap, [NewObject EXCEPT !.script = st.arg]),
                       !.sfc = Len(env.heap) + 1]
      [] st.op = "const styles" -> [env EXCEPT !.styles = st.arg]
      [] st.op = "_sfc_main.render = render" ->
           [env EXCEPT !.heap[env.sfc].render = env.render]
      [] st.op = "const _sfc_main = { render }" ->
           [env EXCEPT !.heap = Append(env.heap, [NewObject EXCEPT !.render = env.render]),
                       !.sfc = Len(env.heap) + 1]
      [] st.op = "_sfc_main.style = styles" ->
           [env EXCEPT !.heap[env.sfc].style = env.styles]
      [] st.op = "_sfc_main.__file" ->
           [env EXCEPT !.heap[env.sfc].file = st.arg]
      [] st.op = "export default _sfc_main" -> [env EXCEPT !.default = env.sfc]
      [] st.op = "export default { render }" ->
           [env EXCEPT !.heap = Append(env.heap, [NewObject EXCEPT !.render = env.render]),
                       !.default = Len(env.heap) + 1]

RECURSIVE ExecAll(_, _)
ExecAll(env, stmts) ==
    IF stmts = <<>> THEN env ELSE ExecAll(Exec(env, Head(stmts)), Tail(stmts))

\* the evaluated module: its objects and which one is the default export
importModule(text) ==
    IF ~text.evaluates THEN Throw
    ELSE LET env == ExecAll(EmptyEnv, text.stmts)
         IN  [kind |-> "module", heap |-> env.heap, sfc |-> env.sfc, default |-> env.default]

-----------------------------------------------------------------------------
(* loadComponent, lines 114-127 *)

LoadError == <<Notice("Error loading component", <<>>)>>

\* the value loadComponent's promise resolves to, and what it wrote to the console
loadComponent(nm, src, verbose) ==
    LET filename == correctName(nm)
        text == compile(filename, src)
        mod == IF text = Throw THEN Throw ELSE importModule(text)
    IN  [value |-> IF mod = Throw THEN Null ELSE mod.heap[mod.default],
         log |-> CompileNotice(filename, verbose) \o (IF mod = Throw THEN LoadError ELSE <<>>)]

-----------------------------------------------------------------------------
(* Runs of compile and the loader on every shape of parsed source *)

RECURSIVE BoolSeqsUpTo(_)
BoolSeqsUpTo(n) ==
    IF n = 0 THEN {<<>>}
    ELSE LET S == BoolSeqsUpTo(n - 1)
         IN  S \cup {Append(s, b) : s \in S, b \in BOOLEAN}

ParsedSources ==
    {Source(1, e, sc, st, t, ev) :
        e \in BOOLEAN, sc \in BOOLEAN, st \in BoolSeqsUpTo(MaxStyles),
        t \in BOOLEAN, ev \in BOOLEAN}

CompileNames == {<<"w", ":", "e">>, <<"f", ".", "v", "u", "e">>}

InitCompile ==
    /\ cm_pc = "input"
    /\ cm_src \in {[name |-> n, source |-> s] : n \in CompileNames, s \in ParsedSources}
    /\ cm_text = <<>>
    /\ cm_heap = <<>>
    /\ cm_default = Null
    /\ nmOff /\ rOff

\* loadComponent up to its await: the name is normalised and compile runs (lines 116-117)
CompileStep ==
    /\ cm_pc = "input"
    /\ LET text == compile(correctName(cm_src.name), cm_src.source)
       IN  IF text = Throw
           THEN /\ cm_pc' = "failed"        \* caught on line 122, null returned
                /\ UNCHANGED cm_text
           ELSE /\ cm_pc' = "compiled"
                /\ cm_text' = text
    /\ UNCHANGED <<cm_src, cm_heap, cm_default, nmVars, rVars>>

\* the awaited importModule settles and .default is read (lines 118-120)
ImportStep ==
    /\ cm_pc = "compiled"
    /\ LET mod == importModule(cm_text)
       IN  IF mod = Throw
           THEN /\ cm_pc' = "failed"
                /\ UNCHANGED <<cm_heap, cm_default>>
           ELSE /\ cm_pc' = "loaded"
                /\ cm_heap' = mod
                /\ cm_default' = mod.heap[mod.default]
    /\ UNCHANGED <<cm_src, cm_text, nmVars, rVars>>

NextCompile == CompileStep \/ ImportStep

SpecCompile == InitCompile /\ [][NextCompile]_vars

\* C9: for every combination of script and style blocks, the default export of
\* the compiled module is the internal symbol _sfc_main itself, so the loaded
\* component carries the render function, the style payload whenever a style
\* block is present, and the filename.
C9_DefaultExportIsSfcMain ==
    cm_pc = "loaded" =>
        /\ cm_heap.default = cm_heap.sfc
        /\ cm_default.render = TemplateCode(cm_src.source)
        /\ HasStyles(cm_src.source) => cm_default.style = StylesCode(cm_src.source)
        /\ cm_default.file = Str(correctName(cm_src.name))

-----------------------------------------------------------------------------
(* templateRender, lines 34-108: arguments *)

I18nOpt(defaultLocale, translations) ==
    [defaultLocale |-> defaultLocale, translations |-> translations]

\* RenderOptions, and the `options` of the global config; an omitted object is
\* one whose fields are all undefined (optional chaining reads undefined from it)
Options(p, i) == [props |-> p, i18n |-> i]

Args(nm, source, comps, options, verbose, cfgOptions) ==
    [name |-> nm,
     code |-> [source |-> source, components |-> comps],
     options |-> options,
     config |-> [verbose |-> verbose, options |-> cfgOptions]]

\* line 36
Verbose(a) == a.config.verbose

\* a variant that looks at the default locales only
hasI18nLocalesOnly(a) ==
    Or(a.options.i18n.defaultLocale, a.config.options.i18n.defaultLocale)

\* line 37
hasI18n(a) ==
    Or(Or(Or(a.options.i18n.defaultLocale, a.config.options.i18n.defaultLocale),
          a.options.i18n.translations),
       a.config.options.i18n.translations)

\* a variant in which the global config wins
propsConfigFirst(a) == Or(a.config.options.props, a.options.props)

\* line 39
props(a) == Or(a.options.props, a.config.options.props)

EN == Str(<<"e", "n">>)

\* lines 67-70
i18nOptions(a) ==
    I18nOpt(Or(Or(a.options.i18n.defaultLocale, a.config.options.i18n.defaultLocale), EN),
            Or(a.options.i18n.translations, a.config.options.i18n.translations))

\* lines 78-85
createI18n(locale, o, verbose) ==
    [kind |-> "i18n", locale |-> locale, fallbackLocale |-> o.defaultLocale,
     messages |-> o.translations, silentFallbackWarn |-> ~verbose,
     silentTranslationWarn |-> ~verbose, warnHtmlInMessage |-> "off"]

\* lines 14-32
Builtins ==
    [kind |-> "builtins",
     names |-> {"EBody", "EHead", "EHeading", "EButton", "EColumn", "EContainer",
                "EFont", "EHr", "EHtml", "EImg", "ELink", "EMarkdown", "EPreview",
                "ERow", "ESection", "ETailwind", "EText"}]

-----------------------------------------------------------------------------
(* The application instance (vue) *)

NoRegistry == [n \in {} |-> Null]

\* lines 49-51: createApp(component, props), app.use(VueEmailPlugin, config?.options),
\* app.config.performance = true
createApp(component, p, pluginOptions) ==
    [kind |-> "app", root |-> component, props |-> p, plugin |-> pluginOptions,
     performance |-> TRUE, registry |-> NoRegistry, i18n |-> Null]

\* a registry in which a name, once taken, is kept
PutIfAbsent(reg, nm, def) ==
    [n \in (DOMAIN reg) \cup {nm} |-> IF n \in DOMAIN reg THEN reg[n] ELSE def]

\* vue: app.component(name, definition) is context.components[name] = definition
Put(reg, nm, def) ==
    [n \in (DOMAIN reg) \cup {nm} |-> IF n = nm THEN def ELSE reg[n]]

\* lines 58-61: { ...componentCode, components }
WithBuiltins(componentCode, builtins) ==
    [kind |-> "component", render |-> componentCode.render, script |-> componentCode.script,
     style |-> componentCode.style, file |-> componentCode.file, components |-> builtins.kind]

\* a registration that lands in every application alive (a process-wide registry)
registerComponentGlobally(apps, c, nm, def) ==
    [d \in DOMAIN apps |->
        IF apps[d] = Null THEN apps[d]
        ELSE [apps[d] EXCEPT !.registry = Put(@, nm, def)]]

\* lines 58-61: app.component(componentName, ...) on the application of call c
registerComponent(apps, c, nm, def) ==
    [apps EXCEPT ![c].registry = Put(@, nm, def)]

\* line 87: app.use(i18n)
installI18n(apps, c, engine) == [apps EXCEPT ![c].i18n = engine]

\* line 98: the markup renderToString produces is a function of the application
renderToString(a) == [kind |-> "markup", of |-> a, cleaned |-> FALSE]

\* vue-email: cleanup(markup)
cleanup(markup) == [markup EXCEPT !.cleaned = TRUE]

doctype == "<!DOCTYPE html PUBLIC \"-//W3C//DTD XHTML 1.0 Transitional//EN\" \"http://www.w3.org/TR/xhtml1/DTD/xhtml1-transitional.dtd\">"

\* lines 99-100: `${doctype}${cleanup(markup)}`
Doc(markup) == [kind |-> "string", head |-> doctype, rest |-> cleanup(markup)]

EmptyString == Str(<<>>)
Pending == [kind |-> "pending"]
Raised == [kind |-> "raised"]

-----------------------------------------------------------------------------
(* templateRender: the steps between two awaits.  A step works on          *)
(* w = [apps, loc]: every application instance, and the locals of call c.  *)

Ev(e, i) == [ev |-> e, i |-> i]
Emit(w, e, i) == [w EXCEPT !.loc.trace = Append(@, Ev(e, i))]
Say(w, notices) == [w EXCEPT !.loc.log = @ \o notices]

\* a catch block that lets the error escape to the caller
CaughtRethrown(w) ==
    [Emit(w, "failed", 0) EXCEPT !.loc.pc = "done", !.loc.result = Raised, !.loc.pending = Null]

\* lines 104-107: the catch block
Caught(w) ==
    [Emit(Say(w, <<Notice("Error rendering template", <<>>)>>), "failed", 0)
        EXCEPT !.loc.pc = "done", !.loc.result = EmptyString, !.loc.pending = Null]

\* a collaborator (vue, vue-i18n, the server renderer, cleanup) throws
Fault(w, what) == Caught(Emit([w EXCEPT !.loc.faulted = TRUE], what, 0))

\* lines 95-98: the notice, then renderToString(app) is called and awaited
BeginRender(w, c, a, nm) ==
    LET w1 == Say(w, IF Verbose(a) THEN <<Notice("Rendering template", nm)>> ELSE <<>>)
    IN  [Emit(w1, "serialize", 0) EXCEPT !.loc.pc = "awaitRender",
                                         !.loc.pending = renderToString(w1.apps[c])]

\* lines 66-93, then on to line 95
Localize(w, c, a, nm, flt) ==
    IF Truthy(hasI18n(a))
    THEN LET o == i18nOptions(a)
             locale == o.defaultLocale
         IN  IF Truthy(locale)
             THEN LET w1 == Say(w, IF Verbose(a) THEN <<Notice("Injecting translations", <<>>)>>
                                   ELSE <<>>)
                  IN  IF flt = "createI18n" THEN Fault(w1, "createI18nThrew")
                      ELSE BeginRender(
                             Emit([w1 EXCEPT !.apps = installI18n(w1.apps, c,
                                                        createI18n(locale, o, Verbose(a)))],
                                  "i18nInstalled", 0),
                             c, a, nm)
             ELSE BeginRender(w, c, a, nm)
    ELSE BeginRender(w, c, a, nm)

Components(a) == a.code.components

\* a loop that leaves after its first entry
LoadNextOnlyFirst(w, c, a, nm, k, flt) ==
    IF k <= Len(Components(a)) /\ k <= 1
    THEN LET componentName == correctName(Components(a)[k].name)
             ld == loadComponent(componentName, Components(a)[k].source, Verbose(a))
         IN  [Emit(Say(w, ld.log), "loadSub", k) EXCEPT !.loc.pc = "awaitSub", !.loc.idx = k,
                                                        !.loc.pending = ld.value]
    ELSE Localize(w, c, a, nm, flt)

\* lines 53-56: the loop over code.components reaches entry k and awaits its load,
\* or is over (line 66 on)
LoadNext(w, c, a, nm, k, flt) ==
    IF k <= Len(Components(a))
    THEN LET componentName == correctName(Components(a)[k].name)
             ld == loadComponent(componentName, Components(a)[k].source, Verbose(a))
         IN  [Emit(Say(w, ld.log), "loadSub", k) EXCEPT !.loc.pc = "awaitSub", !.loc.idx = k,
                                                        !.loc.pending = ld.value]
    ELSE Localize(w, c, a, nm, flt)

\* lines 43-53: the root load has settled
AfterRootLoad(w, c, a, nm, flt) ==
    LET w1 == Say(w, IF Verbose(a) THEN <<Notice("Generating output", <<>>)>> ELSE <<>>)
    IN  IF ~Truthy(w1.loc.pending) THEN Caught(Emit(w1, "rootNotFound", 0))    \* lines 46-47
        ELSE IF flt = "createApp" THEN Fault(w1, "createAppThrew")
        ELSE LoadNext(
               Emit(Emit([w1 EXCEPT !.apps[c] =
                             createApp(w1.loc.pending, props(a), a.config.options)],
                         "rootLoaded", 0), "appCreated", 0),
               c, a, nm, 1, flt)

\* a loop in which a sub-component that fails to load ends the call
AfterSubLoadFatal(w, c, a, nm, flt) ==
    LET k == w.loc.idx
        componentName == correctName(Components(a)[k].name)
    IN  IF Truthy(w.loc.pending)
        THEN IF flt = "register" THEN Fault(w, "registerThrew")
             ELSE LoadNext(
                    Emit([w EXCEPT !.apps = registerComponent(w.apps, c, componentName,
                                               WithBuiltins(w.loc.pending, components))],
                         "registered", k),
                    c, a, nm, k + 1, flt)
        ELSE Caught(Emit(w, "subNotFound", 0))

\* lines 57-63: the load of entry idx has settled
AfterSubLoad(w, c, a, nm, flt) ==
    LET k == w.loc.idx
        componentName == correctName(Components(a)[k].name)
    IN  IF Truthy(w.loc.pending)
        THEN IF flt = "register" THEN Fault(w, "registerThrew")
             ELSE LoadNext(
                    Emit([w EXCEPT !.apps = registerComponent(w.apps, c, componentName,
                                               WithBuiltins(w.loc.pending, components))],
                         "registered", k),
                    c, a, nm, k + 1, flt)
        ELSE LoadNext(w, c, a, nm, k + 1, flt)

\* lines 98-102: renderToString has settled
AfterRender(w, flt) ==
    IF flt = "serialize" THEN Fault(w, "serializeThrew")
    ELSE LET w1 == Emit(w, "serialized", 0)
         IN  IF flt = "cleanup" THEN Fault(w1, "cleanupThrew")
             ELSE [Emit(w1, "done", 0) EXCEPT !.loc.pc = "done",
                                             !.loc.result = Doc(w1.loc.pending),
                                             !.loc.pending = Null]

\* lines 36-41: the call starts, normalises its name and awaits the root load
BeginRootLoad(w, a, nm) ==
    LET ld == loadComponent(nm, a.code.source, Verbose(a))
    IN  [Emit(Emit(Say(w, ld.log), "normalized", 0), "loadRoot", 0)
            EXCEPT !.loc.pc = "awaitRoot", !.loc.pending = ld.value]

-----------------------------------------------------------------------------
(* templateRender: the calls *)

Local(c) ==
    [pc |-> pc[c], idx |-> idx[c], pending |-> pending[c], result |-> result[c],
     log |-> log[c], trace |-> trace[c], faulted |-> faulted[c]]

World(c) == [apps |-> app, loc |-> Local(c)]

Commit(c, w) ==
    /\ app' = w.apps
    /\ pc' = [pc EXCEPT ![c] = w.loc.pc]
    /\ idx' = [idx EXCEPT ![c] = w.loc.idx]
    /\ pending' = [pending EXCEPT ![c] = w.loc.pending]
    /\ result' = [result EXCEPT ![c] = w.loc.result]
    /\ log' = [log EXCEPT ![c] = w.loc.log]
    /\ trace' = [trace EXCEPT ![c] = w.loc.trace]
    /\ faulted' = [faulted EXCEPT ![c] = w.loc.faulted]

\* templateRender is called: lines 35-41, up to the first await
Start(c) ==
    /\ pc[c] = "idle"
    /\ name' = [name EXCEPT ![c] = correctName(args[c].name)]
    /\ Commit(c, BeginRootLoad(World(c), args[c], correctName(args[c].name)))
    /\ UNCHANGED <<live, args, components, nmVars, cmVars>>

\* the root load settles: lines 41-56 (or on to line 98 when there is nothing to load)
RootLoaded(c) ==
    /\ pc[c] = "awaitRoot"
    /\ \E flt \in {"none", "createApp", "createI18n"} :
          Commit(c, AfterRootLoad(World(c), c, args[c], name[c], flt))
    /\ UNCHANGED <<live, args, name, components, nmVars, cmVars>>

\* a sub-component load settles: lines 56-63, then the next entry or line 66 on
SubLoaded(c) ==
    /\ pc[c] = "awaitSub"
    /\ \E flt \in {"none", "register", "createI18n"} :
          Commit(c, AfterSubLoad(World(c), c, args[c], name[c], flt))
    /\ UNCHANGED <<live, args, name, components, nmVars, cmVars>>

\* renderToString settles: lines 98-102
Rendered(c) ==
    /\ pc[c] = "awaitRender"
    /\ \E flt \in {"none", "serialize", "cleanup"} :
          Commit(c, AfterRender(World(c), flt))
    /\ UNCHANGED <<live, args, name, components, nmVars, cmVars>>

Next ==
    \/ \E c \in live : Start(c)
    \/ \E c \in live : RootLoaded(c)
    \/ \E c \in live : SubLoaded(c)
    \/ \E c \in live : Rendered(c)

InitCalls(callers, argsOf) ==
    /\ live = callers
    /\ args = argsOf
    /\ pc = [c \in callers |-> "idle"]
    /\ name = [c \in callers |-> <<>>]
    /\ idx = [c \in callers |-> 0]
    /\ pending = [c \in callers |-> Null]
    /\ app = [c \in callers |-> Null]
    /\ result = [c \in callers |-> Pending]
    /\ log = [c \in callers |-> <<>>]
    /\ trace = [c \in callers |-> <<>>]
    /\ faulted = [c \in callers |-> FALSE]
    /\ components = Builtins
    /\ nmOff /\ cmOff

-----------------------------------------------------------------------------
(* Inputs *)

SrcPlain(id) == Source(id, FALSE, FALSE, <<>>, TRUE, TRUE)
SrcStyled(id) == Source(id, FALSE, FALSE, <<FALSE>>, TRUE, TRUE)
SrcFull(id) == Source(id, FALSE, TRUE, <<TRUE>>, TRUE, TRUE)
SrcParseError(id) == Source(id, TRUE, FALSE, <<>>, TRUE, TRUE)
SrcEvalError(id) == Source(id, FALSE, TRUE, <<>>, TRUE, FALSE)

Entry(nm, source) == [name |-> nm, source |-> source]

FooColonBar == <<"f", ":", "b">>
FooDashBar == <<"f", "-", "b">>
GVue == <<"g", ".", "v", "u", "e">>

SubEntries ==
    { Entry(FooColonBar, SrcFull(1)), Entry(FooDashBar, SrcFull(2)),
      Entry(GVue, SrcPlain(3)), Entry(FooColonBar, SrcParseError(4)),
      Entry(GVue, SrcEvalError(5)) }

RECURSIVE ListsUpTo(_, _)
ListsUpTo(S, n) ==
    IF n = 0 THEN {<<>>}
    ELSE LET L == ListsUpTo(S, n - 1)
         IN  L \cup {Append(l, e) : l \in L, e \in S}

NoI18n == I18nOpt(Undefined, Undefined)
NoOptions == Options(Undefined, NoI18n)

FR == Str(<<"f", "r">>)
DE == Str(<<"d", "e">>)
CatalogueA == Obj("catalogueA", 1)
CatalogueB == Obj("catalogueB", 1)
PropsA == Obj("propsA", 1)
PropsB == Obj("propsB", 1)

WelcomeEn == <<"w", ":", "e">>

RootSources == {SrcPlain(0), SrcFull(0), SrcParseError(0), SrcEvalError(0)}

\* one verbose call; every list of sub-components up to MaxComps
Init ==
    \E source \in RootSources, comps \in ListsUpTo(SubEntries, MaxComps),
       i \in {NoI18n, I18nOpt(FR, CatalogueA)} :
        InitCalls({1}, [c \in {1} |->
            Args(WelcomeEn, source, comps, Options(PropsA, i), TRUE, NoOptions)])

Spec == Init /\ [][Next]_vars

-----------------------------------------------------------------------------
(* What the arguments of a call determine *)

\* the root source of the call loads
RootLoads(a) == Truthy(loadComponent(correctName(a.name), a.code.source, FALSE).value)

\* what entry k of code.components loads as
Loaded(a, k) ==
    loadComponent(correctName(Components(a)[k].name), Components(a)[k].source, FALSE).value

LoadableEntries(a) == {k \in 1..Len(Components(a)) : Truthy(Loaded(a, k))}

Key(a, k) == correctName(Components(a)[k].name)

Happened(c, e, i) == \E j \in 1..Len(trace[c]) : trace[c][j] = Ev(e, i)

Throws == {"rootNotFound", "createAppThrew", "registerThrew", "createI18nThrew",
           "serializeThrew", "cleanupThrew"}

Threw(c) == \E j \in 1..Len(trace[c]) : trace[c][j].ev \in Throws

-----------------------------------------------------------------------------
(* Properties of one call *)

\* C1: whatever step fails (root load, application construction, registration,
\* localization, serialization, cleanup), the call never raises to its caller;
\* it returns the doctype followed by the cleaned markup when every step
\* succeeded and the empty string otherwise, never a partial document.
C1_EmptyOrWholeDocument ==
    \A c \in live :
        /\ result[c] # Raised
        /\ pc[c] # "done" => result[c] = Pending
        /\ pc[c] = "done" =>
              IF RootLoads(args[c]) /\ ~faulted[c]
              THEN /\ result[c] = Doc(renderToString(app[c]))
                   /\ result[c].head = doctype
                   /\ result[c].rest.cleaned
              ELSE result[c] = EmptyString

\* cleanup threw after the markup had been serialised, and the call returned ""
C1_Witness ==
    \E c \in live :
        /\ pc[c] = "done" /\ Happened(c, "serialized", 0) /\ Happened(c, "cleanupThrew", 0)
        /\ result[c] = EmptyString

\* C2: a root that fails to load makes the call return ""; a listed
\* sub-component that fails to load is skipped, it alone is missing from the
\* registry, every loadable entry is still registered and the call returns
\* the document.
C2_OnlyRootLoadIsFatal ==
    \A c \in live :
        LET a == args[c] IN
        /\ (pc[c] = "done" /\ ~RootLoads(a)) => (result[c] = EmptyString /\ app[c] = Null)
        /\ (pc[c] \in {"awaitRender", "done"} /\ RootLoads(a) /\ ~faulted[c]) =>
              /\ \A k \in 1..Len(Components(a)) :
                    Happened(c, "registered", k) <=> k \in LoadableEntries(a)
              /\ DOMAIN app[c].registry = {Key(a, k) : k \in LoadableEntries(a)}
        /\ (pc[c] = "done" /\ RootLoads(a) /\ ~faulted[c]) =>
              /\ result[c] # EmptyString
              /\ result[c] = Doc(renderToString(app[c]))

\* the middle entry of three failed to load, the entries around it were
\* registered, and the document was returned
C2_Witness ==
    \E c \in live :
        LET a == args[c] IN
        /\ pc[c] = "done" /\ ~faulted[c] /\ result[c] # EmptyString
        /\ Len(Components(a)) = 3
        /\ LoadableEntries(a) = {1, 3}
        /\ Key(a, 2) \notin DOMAIN app[c].registry
        /\ DOMAIN app[c].registry = {Key(a, 1), Key(a, 3)}

Max(S) == CHOOSE m \in S : \A n \in S : n <= m

\* C6: when several loadable entries normalise to one name, the registry at
\* serialization time holds, under that name, the definition loaded from the
\* last of them in list order, and the collision raises no error.
C6_LastRegistrationWins ==
    \A c \in live :
        LET a == args[c] IN
        (pc[c] = "awaitRender" \/ (pc[c] = "done" /\ ~faulted[c] /\ RootLoads(a))) =>
            /\ \A k \in LoadableEntries(a) :
                  LET last == Max({j \in LoadableEntries(a) : Key(a, j) = Key(a, k)})
                  IN  app[c].registry[Key(a, k)] = WithBuiltins(Loaded(a, last), Builtins)
            /\ ~Threw(c)

\* "f:b" and "f-b" were both loaded, from different sources, and serialization
\* has started
C6_Witness ==
    \E c \in live :
        LET a == args[c] IN
        /\ pc[c] = "awaitRender"
        /\ \E j, k \in LoadableEntries(a) :
              /\ j < k /\ Key(a, j) = Key(a, k)
              /\ Components(a)[j].name # Components(a)[k].name
              /\ Loaded(a, j) # Loaded(a, k)
              /\ app[c].registry[Key(a, k)] = WithBuiltins(Loaded(a, k), Builtins)

\* the place of a step in the order of a call
Rank(e) ==
    CASE e.ev = "normalized" -> 100
      [] e.ev = "loadRoot" -> 200
      [] e.ev = "rootNotFound" -> 300
      [] e.ev = "rootLoaded" -> 300
      [] e.ev = "createAppThrew" -> 400
      [] e.ev = "appCreated" -> 400
      [] e.ev = "loadSub" -> 500 + 2 * e.i
      [] e.ev = "registerThrew" -> 598
      [] e.ev = "registered" -> 500 + 2 * e.i + 1
      [] e.ev = "createI18nThrew" -> 600
      [] e.ev = "i18nInstalled" -> 600
      [] e.ev = "serialize" -> 700
      [] e.ev = "serializeThrew" -> 800
      [] e.ev = "serialized" -> 800
      [] e.ev = "cleanupThrew" -> 850
      [] e.ev = "done" -> 900
      [] e.ev = "failed" -> 900

\* C10: the steps of a call happen in the order name normalised, root loaded,
\* application created, sub-components loaded and registered in list order,
\* localization installed, serialized, done; serialization starts only after
\* every loadable sub-component is registered and the engine (if any) is
\* installed; nothing follows a failure: no application after a failed root
\* load, no serialization after a failed localization.
C10_StepOrder ==
    \A c \in live :
        LET t == trace[c]
            a == args[c]
        IN  /\ \A i, j \in 1..Len(t) : i < j => Rank(t[i]) < Rank(t[j])
            /\ \A i, j \in 1..Len(t) :
                  (i < j /\ t[i].ev \in Throws \cup {"failed"}) => t[j].ev = "failed"
            /\ Happened(c, "failed", 0) => (pc[c] = "done" /\ result[c] = EmptyString)
            /\ Happened(c, "serialize", 0) =>
                  /\ Happened(c, "appCreated", 0)
                  /\ \A k \in LoadableEntries(a) : Happened(c, "registered", k)
                  /\ Truthy(hasI18n(a)) => Happened(c, "i18nInstalled", 0)
            /\ ~RootLoads(a) =>
                  /\ app[c] = Null
                  /\ \A j \in 1..Len(t) :
                        t[j].ev \in {"normalized", "loadRoot", "rootNotFound", "failed"}
            /\ Happened(c, "createI18nThrew", 0) => ~Happened(c, "serialize", 0)

\* a call with three sub-components and a locale ran to completion
C10_Witness ==
    \E c \in live :
        /\ pc[c] = "done" /\ Happened(c, "done", 0)
        /\ Happened(c, "registered", 1) /\ Happened(c, "registered", 3)
        /\ Happened(c, "i18nInstalled", 0)

-----------------------------------------------------------------------------
(* One call, every combination of call-level and global options *)

InitOpts ==
    \E ol \in {Undefined, EmptyString, FR}, gl \in {Undefined, EmptyString, DE},
       ot \in {Undefined, EmptyObj, CatalogueA}, gt \in {Undefined, EmptyObj, CatalogueB},
       op \in {Undefined, EmptyObj, PropsA}, gp \in {Undefined, EmptyObj, PropsB},
       verbose \in BOOLEAN, source \in {SrcPlain(0), SrcParseError(0)},
       comps \in {<<>>, <<Entry(GVue, SrcStyled(3))>>} :
        InitCalls({1}, [c \in {1} |->
            Args(WelcomeEn, source, comps, Options(op, I18nOpt(ol, ot)), verbose,
                 Options(gp, I18nOpt(gl, gt)))])

SpecOpts == InitOpts /\ [][Next]_vars

\* a string of at least one character, or an object with at least one key
NonEmpty(v) == Truthy(v) /\ (v.kind = "object" => v.size > 0)

\* at least one of the four i18n fields is non-empty
NonEmptyIntent(a) ==
    \/ NonEmpty(a.options.i18n.defaultLocale) \/ NonEmpty(a.config.options.i18n.defaultLocale)
    \/ NonEmpty(a.options.i18n.translations) \/ NonEmpty(a.config.options.i18n.translations)

\* at least one of the four i18n fields is given: defined and not the empty string
GivenIntent(a) ==
    \/ Truthy(a.options.i18n.defaultLocale) \/ Truthy(a.config.options.i18n.defaultLocale)
    \/ Truthy(a.options.i18n.translations) \/ Truthy(a.config.options.i18n.translations)

I18nOmitted(a) == a.options.i18n = NoI18n /\ a.config.options.i18n = NoI18n

EngineInstalled(c) == app[c] # Null /\ app[c].i18n # Null

\* createI18n was called: it returned an engine, or it threw
CreateI18nCalled(c) == Happened(c, "i18nInstalled", 0) \/ Happened(c, "createI18nThrew", 0)

LocaleNotice(c) == \E j \in 1..Len(log[c]) : log[c][j].tag = "Injecting translations"

\* the call got past line 93 without createI18n throwing
PastLocalization(c) == Happened(c, "serialize", 0)

\* C7 as stated: an engine is constructed and installed exactly when at least
\* one of the call-level or global i18n fields is non-empty; with i18n omitted
\* from both, createI18n is not called, nothing is installed or logged.
C7_EngineIffNonEmptyField ==
    \A c \in live :
        /\ PastLocalization(c) => (EngineInstalled(c) <=> NonEmptyIntent(args[c]))
        /\ I18nOmitted(args[c]) =>
              (~CreateI18nCalled(c) /\ ~EngineInstalled(c) /\ ~LocaleNotice(c))

\* C7, amended: in a call that reaches the localization step, an engine is
\* constructed and installed exactly when at least one of the four i18n fields
\* is given (defined and not the empty string; an empty translations object
\* counts as given); when none is given, and so when i18n is omitted from
\* both, createI18n is not called, nothing is installed and no locale notice
\* is logged.
C7_EngineIffGivenField ==
    \A c \in live :
        /\ PastLocalization(c) => (EngineInstalled(c) <=> GivenIntent(args[c]))
        /\ CreateI18nCalled(c) => GivenIntent(args[c])
        /\ ~GivenIntent(args[c]) =>
              (~CreateI18nCalled(c) /\ ~EngineInstalled(c) /\ ~LocaleNotice(c))
        /\ I18nOmitted(args[c]) => ~GivenIntent(args[c])

\* the only i18n field given is an empty translations object, and an engine
\* was installed
C7_Witness ==
    \E c \in live :
        /\ PastLocalization(c) /\ EngineInstalled(c)
        /\ args[c].options.i18n = I18nOpt(Undefined, EmptyObj)
        /\ args[c].config.options.i18n = NoI18n

\* the call-level value when it is non-empty, else the global value
PreferNonEmpty(o, g) == IF NonEmpty(o) THEN o ELSE g

\* the call-level value when it is given, else the global value
PreferGiven(o, g) == IF Truthy(o) THEN o ELSE g

\* C8 as stated: props, defaultLocale and translations each resolve to the
\* call-level value when that is non-empty and to the global value otherwise;
\* the engine's locale and fallback locale are the resolved default locale,
\* and an engine exists only if that locale is non-empty.
C8_CallLevelElseGlobal ==
    \A c \in live :
        LET a == args[c]
            o == a.options
            g == a.config.options
        IN  /\ app[c] # Null => app[c].props = PreferNonEmpty(o.props, g.props)
            /\ EngineInstalled(c) =>
                  /\ app[c].i18n.locale =
                        PreferNonEmpty(o.i18n.defaultLocale, g.i18n.defaultLocale)
                  /\ app[c].i18n.fallbackLocale = app[c].i18n.locale
                  /\ app[c].i18n.messages =
                        PreferNonEmpty(o.i18n.translations, g.i18n.translations)
                  /\ NonEmpty(app[c].i18n.locale)

\* C8, amended: props, defaultLocale and translations each resolve to the
\* call-level value when that is given (defined and not the empty string; an
\* empty object counts as given) and to the global value otherwise, except
\* that the default locale is 'en' when neither level gives one; the engine's
\* locale and fallback locale are the resolved default locale, which is never
\* empty.
C8_CallLevelElseGlobalElseEn ==
    \A c \in live :
        LET a == args[c]
            o == a.options
            g == a.config.options
        IN  /\ app[c] # Null => app[c].props = PreferGiven(o.props, g.props)
            /\ EngineInstalled(c) =>
                  /\ app[c].i18n.locale =
                        PreferGiven(PreferGiven(o.i18n.defaultLocale, g.i18n.defaultLocale), EN)
                  /\ app[c].i18n.fallbackLocale = app[c].i18n.locale
                  /\ app[c].i18n.messages =
                        PreferGiven(o.i18n.translations, g.i18n.translations)
                  /\ NonEmpty(app[c].i18n.locale)

\* both levels give a locale, a catalogue and props, and the engine and the
\* application hold the call-level ones
C8_Witness ==
    \E c \in live :
        /\ PastLocalization(c) /\ EngineInstalled(c)
        /\ args[c].options = Options(PropsA, I18nOpt(FR, CatalogueA))
        /\ args[c].config.options = Options(PropsB, I18nOpt(DE, CatalogueB))
        /\ app[c].props = PropsA
        /\ app[c].i18n.locale = FR /\ app[c].i18n.messages = CatalogueA

-----------------------------------------------------------------------------
(* Two calls whose executions interleave at their awaits *)

ConcEntries(c) ==
    IF c = 1
    THEN {Entry(FooColonBar, SrcFull(1)), Entry(GVue, SrcParseError(4))}
    ELSE {Entry(FooDashBar, SrcFull(2)), Entry(GVue, SrcEvalError(5))}

ConcArgs(c) ==
    {Args(WelcomeEn, IF c = 1 THEN SrcPlain(10) ELSE SrcFull(20), comps,
          Options(IF c = 1 THEN PropsA ELSE PropsB, i), FALSE, NoOptions) :
        comps \in ListsUpTo(ConcEntries(c), MaxConcComps),
        i \in IF c = 1 THEN {NoI18n, I18nOpt(FR, CatalogueA)} ELSE {I18nOpt(DE, CatalogueB)}}

\* either call alone, or both together
InitConc ==
    \E callers \in {{1}, {2}, {1, 2}} :
        \E argsOf \in [callers -> ConcArgs(1) \cup ConcArgs(2)] :
            /\ \A c \in callers : argsOf[c] \in ConcArgs(c)
            /\ InitCalls(callers, argsOf)

SpecConc == InitConc /\ [][Next]_vars

\* the registry a call builds from its own list: each name of a loadable
\* entry, bound to what the last such entry loads as
OwnRegistry(a) ==
    [n \in {Key(a, k) : k \in LoadableEntries(a)} |->
        WithBuiltins(Loaded(a, Max({j \in LoadableEntries(a) : Key(a, j) = n})), Builtins)]

\* the engine a call builds from its own options
OwnEngine(a) ==
    IF Truthy(hasI18n(a)) /\ Truthy(i18nOptions(a).defaultLocale)
    THEN createI18n(i18nOptions(a).defaultLocale, i18nOptions(a), Verbose(a))
    ELSE Null

\* the application a call builds from its own arguments
OwnApp(a) ==
    [createApp(loadComponent(correctName(a.name), a.code.source, FALSE).value,
               props(a), a.config.options)
        EXCEPT !.registry = OwnRegistry(a), !.i18n = OwnEngine(a)]

\* C3: while two calls interleave, the registry, the props and the engine of
\* each hold only what derives from its own arguments, the module-level
\* built-in mapping is never changed, and each call returns what it returns
\* when run alone.
C3_NoCrossCallLeak ==
    /\ components = Builtins
    /\ \A c \in live :
          LET a == args[c] IN
          /\ app[c] # Null =>
                /\ app[c].props = props(a)
                /\ app[c].plugin = a.config.options
                /\ \A n \in DOMAIN app[c].registry :
                      \E k \in LoadableEntries(a) :
                          /\ n = Key(a, k)
                          /\ app[c].registry[n] = WithBuiltins(Loaded(a, k), Builtins)
                /\ app[c].i18n # Null => app[c].i18n = OwnEngine(a)
          /\ (pc[c] = "done" /\ ~faulted[c] /\ RootLoads(a)) =>
                result[c] = Doc(renderToString(OwnApp(a)))

\* both calls are in flight, each has registered its own definition under the
\* same name, and only one of them has an engine
C3_Witness ==
    /\ live = {1, 2}
    /\ pc[1] = "awaitRender" /\ pc[2] \in {"awaitSub", "awaitRender"}
    /\ correctName(FooColonBar) \in DOMAIN app[1].registry
    /\ correctName(FooColonBar) \in DOMAIN app[2].registry
    /\ app[1].registry[correctName(FooColonBar)] # app[2].registry[correctName(FooColonBar)]
    /\ app[1].i18n = Null /\ app[2].i18n # Null

====
